---- MODULE Spec2Model ----
(***************************************************************************)
(* Model of the alignment and hierarchy code of Fivify's backend:          *)
(*   backend/app/services/formulaTranslation.py  (mask, locator, children, *)
(*                                                convertParseResponse)    *)
(*   backend/app/api/parse_utils.py              (merge_fragmented_components,*)
(*                                                resolve_nested_symbols)  *)
(*   backend/app/api/parse.py                    (parse_formula_test)      *)
(*                                                                         *)
(* A Python str is modelled as a sequence of one-character strings, and    *)
(* every position and index keeps Python's 0-based convention.             *)
(***************************************************************************)
EXTENDS Integers, Sequences, FiniteSets, TLC

VARIABLES
    pc,             \* position of the running function
    latex,          \* response.latex / the latex argument
    explanation,    \* response.explanation
    components,     \* response.components: ComponentBreakdown records
    command_mask,   \* local command_mask
    groups,         \* local groups: MacroGroup records
    origin,         \* history: origin[k] = index of the component groups[k] was built from
    idx,            \* number of components the for loop has consumed
    result,         \* the value returned by convertParseResponse
    symbol,         \* the symbol argument of _find_symbol_in_latex
    pos,            \* the value returned by _find_symbol_in_latex
    draft,          \* the components argument of merge_fragmented_components
    glue_indices,   \* local glue_indices of the first call
    normalized,     \* the value returned by the first call
    renormalized,   \* the value returned by the call on that value
    orig_tokens,    \* local orig_tokens of resolve_nested_symbols
    result_tokens,  \* local result_tokens
    children_indices \* local children_indices

nested_vars == <<orig_tokens, result_tokens, children_indices>>

vars == <<pc, latex, explanation, components, command_mask, groups, origin, idx,
          result, symbol, pos, draft, glue_indices, normalized, renormalized,
          nested_vars>>

NestedIdle == orig_tokens = <<>> /\ result_tokens = <<>> /\ children_indices = <<>>

None == [kind |-> "None"]

-----------------------------------------------------------------------------
(* Python str and list primitives *)

Str(A, n) == UNION {[1..k -> A] : k \in 0..n}

NonEmptyStr(A, n) == Str(A, n) \ {<<>>}

SetMin(S) == CHOOSE x \in S : \A y \in S : x <= y

\* s[a:b] for 0 <= a, 0 <= b
Slice(s, a, b) == SubSeq(s, a + 1, IF b < Len(s) THEN b ELSE Len(s))

StartsAt(sub, s, p) ==
    /\ p >= 0
    /\ p + Len(sub) <= Len(s)
    /\ \A k \in 1..Len(sub) : s[p + k] = sub[k]

\* s.find(sub, start) for start >= 0
Find(sub, s, start) ==
    LET hits == {p \in start..(Len(s) - Len(sub)) : StartsAt(sub, s, p)}
    IN IF hits = {} THEN -1 ELSE SetMin(hits)

\* sub in s
IsSubstring(sub, s) == Find(sub, s, 0) # -1

RECURSIVE sorted_descending(_)
sorted_descending(S) ==
    IF S = {} THEN <<>>
    ELSE LET top == CHOOSE x \in S : \A y \in S : y <= x
         IN <<top>> \o sorted_descending(S \ {top})

\* sorted(S) for a finite set of integers
RECURSIVE Sorted(_)
Sorted(S) == IF S = {} THEN <<>> ELSE <<SetMin(S)>> \o Sorted(S \ {SetMin(S)})

-----------------------------------------------------------------------------
(* Enumeration of bounded inputs: a list of lists is drawn as its shape (the    *)
(* lengths of the inner lists) and the flat list of its elements                *)

\* the sequences of positive lengths whose sum is at most t
RECURSIVE Shapes(_)
Shapes(t) == {<<>>} \cup UNION {{<<k>> \o sh : sh \in Shapes(t - k)} : k \in 1..t}

RECURSIVE Total(_)
Total(shape) == IF shape = <<>> THEN 0 ELSE Head(shape) + Total(Tail(shape))

\* the k-th inner list, cut out of the flat list
Part(flat, shape, k) ==
    SubSeq(flat, Total(SubSeq(shape, 1, k - 1)) + 1, Total(SubSeq(shape, 1, k)))

-----------------------------------------------------------------------------
(* _COMMAND_RE = \\[a-zA-Z@]+ and _build_command_mask *)

AsciiLetters ==
    {"a","b","c","d","e","f","g","h","i","j","k","l","m",
     "n","o","p","q","r","s","t","u","v","w","x","y","z",
     "A","B","C","D","E","F","G","H","I","J","K","L","M",
     "N","O","P","Q","R","S","T","U","V","W","X","Y","Z"}

CommandChars == AsciiLetters \cup {"@"}

\* end (exclusive, 0-based) of the greedy run [a-zA-Z@]* that starts at position j
RECURSIVE CommandRunEnd(_, _)
CommandRunEnd(s, j) ==
    IF j < Len(s) /\ s[j + 1] \in CommandChars THEN CommandRunEnd(s, j + 1) ELSE j

\* as CommandMatches, for the pattern \\[a-zA-Z@]* that also matches a lone backslash
RECURSIVE command_matches_star(_, _)
command_matches_star(s, i) ==
    IF i >= Len(s) THEN <<>>
    ELSE IF s[i + 1] = "\\"
         THEN <<<<i, CommandRunEnd(s, i + 1)>>>> \o command_matches_star(s, CommandRunEnd(s, i + 1))
         ELSE command_matches_star(s, i + 1)

\* _COMMAND_RE.finditer(s), scanning from position i: the non-overlapping matches
\* <<start, end>>, leftmost first, each as long as possible
RECURSIVE CommandMatches(_, _)
CommandMatches(s, i) ==
    IF i >= Len(s) THEN <<>>
    ELSE IF s[i + 1] = "\\" /\ CommandRunEnd(s, i + 1) > i + 1
         THEN <<<<i, CommandRunEnd(s, i + 1)>>>> \o CommandMatches(s, CommandRunEnd(s, i + 1))
         ELSE CommandMatches(s, i + 1)

build_mask_without_backslash(s) ==
    LET ms == CommandMatches(s, 0)
    IN [p \in 1..Len(s) |-> \E k \in 1..Len(ms) : ms[k][1] < p - 1 /\ p - 1 < ms[k][2]]

\* mask[p + 1] is the flag of 0-based position p
_build_command_mask(s) ==
    LET ms == CommandMatches(s, 0)
    IN [p \in 1..Len(s) |-> \E k \in 1..Len(ms) : ms[k][1] <= p - 1 /\ p - 1 < ms[k][2]]

-----------------------------------------------------------------------------
(* _find_symbol_in_latex *)

\* any(command_mask[p : p + n])
AnyMasked(mask, p, n) ==
    \E q \in p..(p + n - 1) : q + 1 \in DOMAIN mask /\ mask[q + 1]

masked_scan_first_occurrence_only(sym, s, mask, start) ==
    IF start > Len(s) - Len(sym) THEN -1
    ELSE LET p == Find(sym, s, start)
         IN IF p = -1 THEN -1
            ELSE IF ~AnyMasked(mask, p, Len(sym)) THEN p
            ELSE -1

\* the while loop of lines 35-43, entered with the given start
RECURSIVE MaskedScan(_, _, _, _)
MaskedScan(sym, s, mask, start) ==
    IF start > Len(s) - Len(sym) THEN -1
    ELSE LET p == Find(sym, s, start)
         IN IF p = -1 THEN -1
            ELSE IF ~AnyMasked(mask, p, Len(sym)) THEN p
            ELSE MaskedScan(sym, s, mask, p + 1)

find_symbol_ignoring_mask(sym, s, mask) == Find(sym, s, 0)

find_symbol_without_bypass(sym, s, mask) == MaskedScan(sym, s, mask, 0)

_find_symbol_in_latex(sym, s, mask) ==
    IF IsSubstring(<<"\\">>, sym) THEN Find(sym, s, 0)
    ELSE MaskedScan(sym, s, mask, 0)

-----------------------------------------------------------------------------
(* Specification of the locator: _build_command_mask, then _find_symbol_in_latex *)

MaxLatexLen == 4
MaxSymLen == 2

FindAlphabet == {"\\", "m", "@", "{", "2"}

\* \mathrm{m}^{m}
MathrmExample == <<"\\","m","a","t","h","r","m","{","m","}","^","{","m","}">>

Idle ==
    /\ explanation = <<>>
    /\ components = <<>>
    /\ groups = <<>>
    /\ origin = <<>>
    /\ idx = 0
    /\ result = None
    /\ draft = <<>>
    /\ glue_indices = {}
    /\ normalized = None
    /\ renormalized = None
    /\ NestedIdle

InitFind ==
    /\ pc = "find_mask"
    /\ latex \in Str(FindAlphabet, MaxLatexLen) \cup {MathrmExample}
    /\ symbol \in NonEmptyStr(FindAlphabet, MaxSymLen) \cup {<<>>}
    /\ command_mask = None
    /\ pos = None
    /\ Idle

BuildMask ==
    /\ pc = "find_mask"
    /\ command_mask' = _build_command_mask(latex)
    /\ pc' = "find_symbol"
    /\ UNCHANGED <<nested_vars, latex, explanation, components, groups, origin, idx, result,
                   symbol, pos, draft, glue_indices, normalized, renormalized>>

FindSymbol ==
    /\ pc = "find_symbol"
    /\ pos' = _find_symbol_in_latex(symbol, latex, command_mask)
    /\ pc' = "find_done"
    /\ UNCHANGED <<nested_vars, latex, explanation, components, command_mask, groups, origin, idx,
                   result, symbol, draft, glue_indices, normalized, renormalized>>

NextFind == BuildMask \/ FindSymbol

SpecFind == InitFind /\ [][NextFind]_vars

-----------------------------------------------------------------------------
(* Properties of the locator *)

MathrmName == <<"\\","m","a","t","h","r","m">>

LocatedMInMathrmExample ==
    /\ pc = "find_done"
    /\ latex = MathrmExample
    /\ symbol = <<"m">>

\* C5 (as stated): for markup \mathrm{m}^{m}, locating m returns the position of
\* the m inside ^{m}, and never a position inside \mathrm.
C5_ReturnsExponentM ==
    LocatedMInMathrmExample =>
        /\ pos = Find(<<"^","{","m","}">>, latex, 0) + 2
        /\ pos \notin 0..(Len(MathrmName) - 1)

\* C5 (amended): for markup \mathrm{m}^{m}, locating m returns the first m that is
\* not inside a command name, which is the m of the brace argument {m} that
\* follows \mathrm, and never a position inside \mathrm.
C5_ReturnsFirstFreeM ==
    LocatedMInMathrmExample =>
        /\ pos = Find(<<"{","m","}">>, latex, 0) + 1
        /\ pos \notin 0..(Len(MathrmName) - 1)
        /\ \A p \in 0..(pos - 1) : StartsAt(symbol, latex, p) => command_mask[p + 1]

C5_Witness ==
    /\ LocatedMInMathrmExample
    /\ pos > Len(MathrmName)
    /\ StartsAt(MathrmName, latex, 0)

MaskBuilt == pc \in {"find_symbol", "find_done"}

EndsInBareBackslash(s) == s # <<>> /\ s[Len(s)] = "\\"

\* C12 (as stated): for a markup string that ends in a bare backslash,
\* _build_command_mask raises no error and marks that trailing backslash position
\* as masked.
C12_TrailingBackslashMasked ==
    (MaskBuilt /\ EndsInBareBackslash(latex)) =>
        /\ Len(command_mask) = Len(latex)
        /\ command_mask[Len(latex)] = TRUE

\* C12 (amended): for a markup string that ends in a bare backslash,
\* _build_command_mask raises no error, returns a mask of the string's length, and
\* leaves that trailing backslash position unmasked.
C12_TrailingBackslashUnmasked ==
    (MaskBuilt /\ EndsInBareBackslash(latex)) =>
        /\ Len(command_mask) = Len(latex)
        /\ command_mask[Len(latex)] = FALSE

C12_Witness ==
    /\ MaskBuilt
    /\ EndsInBareBackslash(latex)
    /\ Len(latex) > 2
    /\ command_mask[1] /\ command_mask[2]

\* position p of s lies inside a command-name token: some backslash at b <= p is
\* followed by at least one character of [a-zA-Z@], and every character after b up
\* to p is one of them
InCommandName(s, p) ==
    \E b \in 0..p :
        /\ s[b + 1] = "\\"
        /\ b + 1 < Len(s)
        /\ s[b + 2] \in CommandChars
        /\ \A q \in (b + 1)..p : s[q + 1] \in CommandChars

\* C13: for every markup string s, _build_command_mask(s) has exactly len(s)
\* entries, and entry i is true if and only if position i lies inside a maximal run
\* of a backslash followed by one or more characters of letters/@ (backslash
\* included); braces, digits and free letters are false.
C13_MaskIsCommandNames ==
    MaskBuilt =>
        /\ DOMAIN command_mask = 1..Len(latex)
        /\ \A p \in 0..(Len(latex) - 1) : command_mask[p + 1] <=> InCommandName(latex, p)

C13_Witness ==
    /\ MaskBuilt
    /\ latex = <<"m", "\\", "@", "2">>
    /\ command_mask = <<FALSE, TRUE, TRUE, FALSE>>

HasBackslash(sym) == \E k \in 1..Len(sym) : sym[k] = "\\"

\* the positions where the symbol occurs with no character of the match masked
FreeOccurrences ==
    {p \in 0..(Len(latex) - Len(symbol)) :
        /\ StartsAt(symbol, latex, p)
        /\ \A q \in p..(p + Len(symbol) - 1) : ~command_mask[q + 1]}

Occurrences == {p \in 0..(Len(latex) - Len(symbol)) : StartsAt(symbol, latex, p)}

\* C17: for a symbol that contains no backslash, _find_symbol_in_latex returns the
\* smallest position p such that latex[p:p+len(symbol)] == symbol and no position in
\* p..p+len(symbol)-1 is masked, and returns -1 exactly when there is none; a masked
\* earlier occurrence never hides a later free one, and the scan ends with a value.
C17_MaskAwareSearch ==
    (pc = "find_done" /\ ~HasBackslash(symbol)) =>
        /\ pos \in -1..Len(latex)
        /\ pos = -1 <=> FreeOccurrences = {}
        /\ pos # -1 => pos \in FreeOccurrences /\ \A p \in FreeOccurrences : pos <= p

C17_Witness ==
    /\ pc = "find_done"
    /\ ~HasBackslash(symbol)
    /\ symbol # <<>>
    /\ pos > 0
    /\ \E p \in Occurrences : p < pos /\ command_mask[p + 1]

\* C18: for a symbol that contains a backslash, _find_symbol_in_latex returns the
\* position of the first literal occurrence of the symbol in the markup (or -1 if
\* there is none), whatever the command mask says, also when that occurrence lies
\* inside or is a proper prefix of a longer command name.
C18_MaskBypass ==
    (pc = "find_done" /\ HasBackslash(symbol)) =>
        /\ pos = -1 <=> Occurrences = {}
        /\ pos # -1 => pos \in Occurrences /\ \A p \in Occurrences : pos <= p

C18_Witness ==
    /\ pc = "find_done"
    /\ HasBackslash(symbol)
    /\ pos >= 0
    /\ Len(symbol) = 2
    /\ pos + Len(symbol) < Len(latex)
    /\ command_mask[pos + 1]
    /\ command_mask[pos + Len(symbol) + 1]

-----------------------------------------------------------------------------
(* assignIndices *)

\* as LocateSymbols, with a break instead of the continue of line 68
RECURSIVE locate_symbols_stop_at_first_miss(_, _, _)
locate_symbols_stop_at_first_miss(syms, s, mask) ==
    IF syms = <<>> THEN <<>>
    ELSE LET tex_start == _find_symbol_in_latex(Head(syms), s, mask)
         IN IF tex_start = -1 THEN <<>>
            ELSE <<<<tex_start, tex_start + Len(Head(syms))>>>>
                     \o locate_symbols_stop_at_first_miss(Tail(syms), s, mask)

\* the for loop of lines 65-72: the spans of the symbols that are found, in order
RECURSIVE LocateSymbols(_, _, _)
LocateSymbols(syms, s, mask) ==
    IF syms = <<>> THEN <<>>
    ELSE LET tex_start == _find_symbol_in_latex(Head(syms), s, mask)
             rest == LocateSymbols(Tail(syms), s, mask)
         IN IF tex_start = -1 THEN rest
            ELSE <<<<tex_start, tex_start + Len(Head(syms))>>>> \o rest

narrative_span_one_longer(counterpart, expl) ==
    <<Find(counterpart, expl, 0), Find(counterpart, expl, 0) + Len(counterpart) + 1>>

\* <<startIndex, endIndex>> of lines 54 and 58
NarrativeSpan(counterpart, expl) ==
    <<Find(counterpart, expl, 0), Find(counterpart, expl, 0) + Len(counterpart)>>

latex_parts_from_symbol_start(ranges, s) ==
    [k \in 1..Len(ranges) |-> Slice(s, ranges[k][1], ranges[k][2] - 1)]

\* latex_parts of line 72
LatexParts(ranges, s) ==
    [k \in 1..Len(ranges) |-> Slice(s, ranges[k][1], ranges[k][2])]

assignIndices_keeps_unlocated_phrase(component, s, expl, mask) ==
    LET ranges == LocateSymbols(component.symbol, s, mask)
    IN IF ranges = <<>> THEN None
       ELSE [kind |-> "indices",
             narrative_span |-> NarrativeSpan(component.counterpart, expl),
             ranges |-> ranges,
             latex_parts |-> LatexParts(ranges, s)]

assignIndices(component, s, expl, mask) ==
    LET ranges == LocateSymbols(component.symbol, s, mask)
    IN IF Find(component.counterpart, expl, 0) = -1 THEN None
       ELSE IF ranges = <<>> THEN None
       ELSE [kind |-> "indices",
             narrative_span |-> NarrativeSpan(component.counterpart, expl),
             ranges |-> ranges,
             latex_parts |-> LatexParts(ranges, s)]

-----------------------------------------------------------------------------
(* _range_contains and _compute_children; group k of the Python list is gs[k + 1] *)

range_contains_or_equal(parent, child) ==
    /\ parent[1] <= child[1]
    /\ child[2] <= parent[2]

_range_contains(parent, child) ==
    /\ parent[1] <= child[1]
    /\ child[2] <= parent[2]
    /\ (parent[2] - parent[1]) > (child[2] - child[1])

\* contains[i] of lines 101-114
Contains(gs, i) ==
    {j \in (0..(Len(gs) - 1)) \ {i} :
        \E a \in 1..Len(gs[i + 1].ranges) : \E b \in 1..Len(gs[j + 1].ranges) :
            _range_contains(gs[i + 1].ranges[a], gs[j + 1].ranges[b])}

direct_without_filter(gs, i) == Contains(gs, i)

\* direct of lines 118-123
Direct(gs, i) ==
    Contains(gs, i) \ UNION {Contains(gs, child) \cap Contains(gs, i) : child \in Contains(gs, i)}

\* as _compute_children, followed by a stable sort by number of children, largest first
compute_children_sorted_by_child_count(gs) ==
    LET cs == [k \in 1..Len(gs) |-> [gs[k] EXCEPT !.children = Sorted(Direct(gs, k - 1))]]
        rank(k) == 1 + Cardinality({j \in 1..Len(cs) :
                        \/ Len(cs[j].children) > Len(cs[k].children)
                        \/ Len(cs[j].children) = Len(cs[k].children) /\ j < k})
    IN [r \in 1..Len(cs) |-> cs[CHOOSE k \in 1..Len(cs) : rank(k) = r]]

_compute_children(gs) ==
    [k \in 1..Len(gs) |-> [gs[k] EXCEPT !.children = Sorted(Direct(gs, k - 1))]]

MacroGroup(ranges, parts, label, narrative_span) ==
    [ranges |-> ranges, latex |-> parts, label |-> label,
     narrative_span |-> narrative_span, children |-> <<>>]

-----------------------------------------------------------------------------
(* Specification of convertParseResponse *)

MaxSymbols == 3

LatexInputs ==
    { <<"\\","m","+","m">>,      \* \m+m
      <<"m","+","m">>,           \* m+m
      <<"\\","m">> }             \* \m

SymbolInputs == { <<"m">>, <<"+","m">>, <<"\\","m">>, <<"x">> }

ExplanationInputs == { <<"a","b","c">>, <<"a","b">> }

CounterpartInputs == { <<"b">>, <<"b","c">>, <<>> }

\* the components hold at most MaxSymbols symbol strings in all, each at least one
Init ==
    /\ pc = "start"
    /\ latex \in LatexInputs
    /\ explanation \in ExplanationInputs
    /\ \E shape \in Shapes(MaxSymbols) :
        \E syms \in [1..Total(shape) -> SymbolInputs] :
            \E cps \in [1..Len(shape) -> CounterpartInputs] :
                components = [k \in 1..Len(shape) |->
                                 [symbol |-> Part(syms, shape, k), counterpart |-> cps[k]]]
    /\ command_mask = None
    /\ groups = <<>>
    /\ origin = <<>>
    /\ idx = 0
    /\ result = None
    /\ symbol = <<>>
    /\ pos = None
    /\ draft = <<>>
    /\ glue_indices = {}
    /\ normalized = None
    /\ renormalized = None
    /\ NestedIdle

\* lines 128-130
Start ==
    /\ pc = "start"
    /\ command_mask' = _build_command_mask(latex)
    /\ groups' = <<>>
    /\ pc' = "loop"
    /\ UNCHANGED <<nested_vars, latex, explanation, components, origin, idx, result,
                   symbol, pos, draft, glue_indices, normalized, renormalized>>

\* one iteration of the for loop, lines 131-141
LocateComponent ==
    /\ pc = "loop"
    /\ idx < Len(components)
    /\ LET component == components[idx + 1]
           indices == assignIndices(component, latex, explanation, command_mask)
       IN IF indices = None
          THEN UNCHANGED <<groups, origin>>
          ELSE /\ groups' = Append(groups, MacroGroup(indices.ranges, indices.latex_parts,
                                                      component.counterpart,
                                                      indices.narrative_span))
               /\ origin' = Append(origin, idx)
    /\ idx' = idx + 1
    /\ UNCHANGED <<nested_vars, pc, latex, explanation, components, command_mask, result,
                   symbol, pos, draft, glue_indices, normalized, renormalized>>

\* line 144
ComputeChildren ==
    /\ pc = "loop"
    /\ idx = Len(components)
    /\ groups' = _compute_children(groups)
    /\ pc' = "return"
    /\ UNCHANGED <<nested_vars, latex, explanation, components, command_mask, origin, idx, result,
                   symbol, pos, draft, glue_indices, normalized, renormalized>>

\* lines 146-149
Return ==
    /\ pc = "return"
    /\ result' = [kind |-> "MacroMap", groups |-> groups, narrative |-> explanation]
    /\ pc' = "done"
    /\ UNCHANGED <<nested_vars, latex, explanation, components, command_mask, groups, origin, idx,
                   symbol, pos, draft, glue_indices, normalized, renormalized>>

Next == Start \/ LocateComponent \/ ComputeChildren \/ Return

Spec == Init /\ [][Next]_vars

-----------------------------------------------------------------------------
(* Properties of convertParseResponse *)

Returned == pc = "done"

GroupIndices == 1..Len(result.groups)

\* s[a:b] = part, stated character by character
SliceIs(s, a, b, part) ==
    /\ 0 <= a /\ a <= b /\ b <= Len(s)
    /\ Len(part) = b - a
    /\ \A o \in 1..Len(part) : part[o] = s[a + o]

CounterpartFound(k) == IsSubstring(components[k + 1].counterpart, explanation)

SymbolLocatable(k) ==
    \E n \in 1..Len(components[k + 1].symbol) :
        _find_symbol_in_latex(components[k + 1].symbol[n], latex, command_mask) # -1

Produced(k) == \E g \in 1..Len(origin) : origin[g] = k

\* C1: for every group g of the returned MacroMap, the narrative span is in bounds
\* (0 <= start <= end <= len(explanation)) and explanation[start:end] equals g.label.
C1_NarrativeSpanFidelity ==
    Returned =>
        \A g \in GroupIndices :
            SliceIs(explanation, result.groups[g].narrative_span[1],
                    result.groups[g].narrative_span[2], result.groups[g].label)

C1_Witness ==
    /\ Returned
    /\ \E g \in GroupIndices :
        /\ result.groups[g].narrative_span[1] > 0
        /\ Len(result.groups[g].label) > 1
        /\ result.groups[g].narrative_span[2] = Len(explanation)

\* C2: for every returned group g, g.ranges and g.latex have the same length, and
\* for every k the slice latex[g.ranges[k].start : g.ranges[k].end] of the original
\* markup equals g.latex[k].
C2_MarkupSpanFidelity ==
    Returned =>
        \A g \in GroupIndices :
            /\ Len(result.groups[g].ranges) = Len(result.groups[g].latex)
            /\ \A k \in 1..Len(result.groups[g].ranges) :
                SliceIs(latex, result.groups[g].ranges[k][1], result.groups[g].ranges[k][2],
                        result.groups[g].latex[k])

C2_Witness ==
    /\ Returned
    /\ \E g \in GroupIndices :
        /\ Len(result.groups[g].ranges) = 2
        /\ result.groups[g].ranges[1][1] > result.groups[g].ranges[2][1]
        /\ result.groups[g].latex[1] # result.groups[g].latex[2]
        /\ Len(components[origin[g] + 1].symbol) > 2

\* C4: when every component of the draft is dropped during alignment, the run returns
\* an explicit "no components" outcome that is distinguishable from success; it does
\* not return a valid result object whose group list is empty.
C4_EmptyResultIsExplicit ==
    (Returned /\ components # <<>> /\ \A k \in 0..(Len(components) - 1) : ~Produced(k))
        => ~(result.kind = "MacroMap" /\ result.groups = <<>>)

\* C6: no two groups in the final output of an alignment run have an identical
\* counterpart (label) string.
C6_DistinctLabels ==
    Returned =>
        \A g \in GroupIndices : \A h \in GroupIndices :
            g # h => result.groups[g].label # result.groups[h].label

\* C10: a component whose counterpart is not a literal substring of the explanation
\* produces no group and raises no error (the loop consumes every component and the
\* run returns its MacroMap),
\* and every other component of the run whose counterpart occurs in the explanation
\* and that has at least one locatable symbol still produces a group.
C10_UnlocatableCounterpartRecoverable ==
    Returned =>
        /\ result.kind = "MacroMap"
        /\ idx = Len(components)
        /\ Len(result.groups) = Len(origin)
        /\ \A k \in 0..(Len(components) - 1) :
            /\ ~CounterpartFound(k) => ~Produced(k)
            /\ (CounterpartFound(k) /\ SymbolLocatable(k)) =>
                  \E g \in GroupIndices :
                      /\ origin[g] = k
                      /\ result.groups[g].label = components[k + 1].counterpart

C10_Witness ==
    /\ Returned
    /\ Len(components) = 3
    /\ ~CounterpartFound(1) /\ SymbolLocatable(1)
    /\ Produced(0) /\ Produced(2) /\ ~Produced(1)

\* the symbols of component k that are located in the markup, by position in the list
LocatedSymbols(k) ==
    Sorted({n \in 1..Len(components[k + 1].symbol) :
               _find_symbol_in_latex(components[k + 1].symbol[n], latex, command_mask) # -1})

\* the span of each located symbol of component k, in the order the symbols were given
ExpectedRanges(k) ==
    LET syms == components[k + 1].symbol
        located == LocatedSymbols(k)
        at(n) == _find_symbol_in_latex(syms[n], latex, command_mask)
    IN [m \in 1..Len(located) |-> <<at(located[m]), at(located[m]) + Len(syms[located[m]])>>]

\* C11: for a component whose counterpart is found in the explanation, the group's
\* ranges are exactly the spans of the symbols that are located, in the order given,
\* with unlocated symbols left out; the component is dropped if and only if none of
\* its symbols is located; no returned group has an empty ranges list.
C11_SymbolGranularity ==
    Returned =>
        /\ \A k \in 0..(Len(components) - 1) :
               CounterpartFound(k) =>
                   /\ Produced(k) <=> SymbolLocatable(k)
                   /\ \A g \in GroupIndices :
                          origin[g] = k => result.groups[g].ranges = ExpectedRanges(k)
        /\ \A g \in GroupIndices : result.groups[g].ranges # <<>>

C11_Witness ==
    /\ Returned
    /\ \E g \in GroupIndices :
           LET syms == components[origin[g] + 1].symbol
           IN /\ Len(syms) = 2
              /\ _find_symbol_in_latex(syms[1], latex, command_mask) = -1
              /\ Len(result.groups[g].ranges) = 1
    /\ \E k \in 0..(Len(components) - 1) :
           /\ CounterpartFound(k)
           /\ components[k + 1].symbol # <<>>
           /\ ~SymbolLocatable(k)
           /\ ~Produced(k)

\* the components that yield a group, in input order
Survivors ==
    Sorted({k \in 0..(Len(components) - 1) : CounterpartFound(k) /\ SymbolLocatable(k)})

\* C15: the returned groups are the surviving components in the same relative order
\* as in the input (a subsequence, never re-sorted by span, size or child count), and
\* the returned narrative is the input explanation unchanged.
C15_OrderAndFrame ==
    Returned =>
        /\ result.narrative = explanation
        /\ Len(result.groups) = Len(Survivors)
        /\ \A g \in GroupIndices :
               /\ result.groups[g].label = components[Survivors[g] + 1].counterpart
               /\ result.groups[g].ranges = ExpectedRanges(Survivors[g])
               /\ origin[g] = Survivors[g]

C15_Witness ==
    /\ Returned
    /\ Len(components) = 3
    /\ Survivors = <<0, 2>>
    /\ Len(result.groups) = 2
    /\ result.groups[1].label # result.groups[2].label
    /\ result.groups[1].children = <<>>
    /\ result.groups[2].children = <<0>>

-----------------------------------------------------------------------------
(* Specification of _compute_children on its own.  The groups are those that    *)
(* convertParseResponse builds for the markup abc, whose characters are         *)
(* distinct, so that every span of the markup is the span of a symbol.          *)

MaxRanges == 4

ChildrenMarkup == <<"a","b","c">>

\* the spans of the non-empty substrings of the markup
SpanInputs == {r \in (0..Len(ChildrenMarkup)) \X (0..Len(ChildrenMarkup)) : r[1] < r[2]}

\* the groups hold at most MaxRanges ranges in all, each at least one
InitChildren ==
    /\ pc = "children_start"
    /\ latex = ChildrenMarkup
    /\ \E shape \in Shapes(MaxRanges) :
        \E rs \in [1..Total(shape) -> SpanInputs] :
            groups = [k \in 1..Len(shape) |->
                         MacroGroup(Part(rs, shape, k),
                                    LatexParts(Part(rs, shape, k), ChildrenMarkup),
                                    <<>>, <<0, 0>>)]
    /\ explanation = <<>>
    /\ components = <<>>
    /\ command_mask = None
    /\ origin = <<>>
    /\ idx = 0
    /\ result = None
    /\ symbol = <<>>
    /\ pos = None
    /\ draft = <<>>
    /\ glue_indices = {}
    /\ normalized = None
    /\ renormalized = None
    /\ NestedIdle

ComputeChildrenCall ==
    /\ pc = "children_start"
    /\ groups' = _compute_children(groups)
    /\ pc' = "children_done"
    /\ UNCHANGED <<nested_vars, latex, explanation, components, command_mask, origin, idx, result,
                   symbol, pos, draft, glue_indices, normalized, renormalized>>

NextChildren == ComputeChildrenCall

SpecChildren == InitChildren /\ [][NextChildren]_vars

-----------------------------------------------------------------------------
(* Properties of _compute_children *)

\* j in groups[i].children, for 0-based i and j
IsChild(i, j) == \E n \in 1..Len(groups[i + 1].children) : groups[i + 1].children[n] = j

GroupIds == 0..(Len(groups) - 1)

\* C3: after _compute_children, for all groups A, B, C (groups with several ranges
\* included), if B is in A's children and C is in B's children, then C is not in
\* A's children.
C3_NoGrandchild ==
    pc = "children_done" =>
        \A A \in GroupIds : \A B \in GroupIds : \A C \in GroupIds :
            (IsChild(A, B) /\ IsChild(B, C)) => ~IsChild(A, C)

C3_Witness ==
    /\ pc = "children_done"
    /\ \E A \in GroupIds : \E B \in GroupIds : \E C \in GroupIds :
        /\ IsChild(A, B) /\ IsChild(B, C)
        /\ C \in Contains(groups, A)
        /\ Len(groups[B + 1].ranges) > 1

\* span b lies within span a and is not the whole of it
StrictlyInside(a, b) == a[1] <= b[1] /\ b[2] <= a[2] /\ a # b

\* some range of group j lies strictly inside some range of group i
SomeRangeInside(i, j) ==
    /\ i # j
    /\ \E a \in 1..Len(groups[i + 1].ranges) : \E b \in 1..Len(groups[j + 1].ranges) :
           StrictlyInside(groups[i + 1].ranges[a], groups[j + 1].ranges[b])

\* every range of group i and every range of group j is the same span
AllRangesEqual(i, j) ==
    \A a \in 1..Len(groups[i + 1].ranges) : \A b \in 1..Len(groups[j + 1].ranges) :
        groups[i + 1].ranges[a] = groups[j + 1].ranges[b]

\* C16: after _compute_children on n groups, every entry j of groups[i].children
\* satisfies 0 <= j < n and j # i, and some range of group j is strictly contained in
\* some range of group i; two groups all of whose ranges are one and the same span
\* are never parent and child.
C16_ChildEdgesSound ==
    pc = "children_done" =>
        /\ \A i \in GroupIds : \A n \in 1..Len(groups[i + 1].children) :
               LET j == groups[i + 1].children[n]
               IN j \in GroupIds /\ j # i /\ SomeRangeInside(i, j)
        /\ \A i \in GroupIds : \A j \in GroupIds :
               AllRangesEqual(i, j) => ~IsChild(i, j) /\ ~IsChild(j, i)

C16_Witness ==
    /\ pc = "children_done"
    /\ \E i \in GroupIds : \E j \in GroupIds : \E k \in GroupIds :
        /\ i # j
        /\ AllRangesEqual(i, j)
        /\ IsChild(k, i) /\ IsChild(k, j)
        /\ Len(groups[k + 1].ranges) > 1

\* group g has the single span r
SingleSpan(g, r) == groups[g + 1].ranges = <<r>>

\* group D lies between group A and group B: inside A and around B
Between(A, D, B) == SomeRangeInside(A, D) /\ SomeRangeInside(D, B)

\* B and C have one identical span, strictly inside a span of A, and no other
\* group lies between them and A
TiedUnder(A, B, C) ==
    /\ A # B /\ A # C /\ B # C
    /\ \E r \in SpanInputs : SingleSpan(B, r) /\ SingleSpan(C, r)
    /\ SomeRangeInside(A, B)
    /\ \A D \in GroupIds \ {A, B, C} : ~Between(A, D, B) /\ ~Between(A, D, C)

\* the place of j in groups[i].children
ChildPlace(i, j) == CHOOSE n \in 1..Len(groups[i + 1].children) : groups[i + 1].children[n] = j

\* C19: when two groups B and C have an identical markup span that is strictly
\* contained in a span of a group A, and no other group lies between them and A,
\* neither B nor C is a child of the other, and both appear in A's children in
\* ascending index order.
C19_TieBreakOnEqualSpans ==
    pc = "children_done" =>
        \A A \in GroupIds : \A B \in GroupIds : \A C \in GroupIds :
            (TiedUnder(A, B, C) /\ B < C) =>
                /\ ~IsChild(B, C) /\ ~IsChild(C, B)
                /\ IsChild(A, B) /\ IsChild(A, C)
                /\ ChildPlace(A, B) < ChildPlace(A, C)

C19_Witness ==
    /\ pc = "children_done"
    /\ Len(groups) = 4
    /\ TiedUnder(1, 0, 3)
    /\ groups[2].children = <<0, 3>>

\* C20: whenever some range of group j is strictly contained in some range of group
\* i, j is in i's children or some range of j is strictly contained in some range of
\* a group in i's children; in particular a group that contains at least one other
\* group never ends with an empty children list; groups with several ranges included.
C20_DirectChildrenCoverage ==
    pc = "children_done" =>
        \A i \in GroupIds :
            /\ \A j \in GroupIds :
                   SomeRangeInside(i, j) =>
                       \/ IsChild(i, j)
                       \/ \E c \in GroupIds : IsChild(i, c) /\ SomeRangeInside(c, j)
            /\ (\E j \in GroupIds : SomeRangeInside(i, j)) => groups[i + 1].children # <<>>

\* the groups reached from group i by following children indices n times or fewer,
\* at least once
RECURSIVE Descendants(_, _)
Descendants(i, n) ==
    LET ch == {j \in GroupIds : IsChild(i, j)}
    IN IF n <= 1 THEN ch
       ELSE ch \cup UNION {Descendants(c, n - 1) : c \in ch}

\* C21: in the groups that convertParseResponse returns the children relation is
\* acyclic: no group is reached from itself by following children indices, and in
\* particular no two groups list each other as children, components with several
\* symbols included.
C21_AcyclicChildren ==
    pc = "children_done" =>
        \A i \in GroupIds : i \notin Descendants(i, Len(groups))

-----------------------------------------------------------------------------
(* parse_utils.py: _is_syntactic_glue and merge_fragmented_components.  A       *)
(* component is the dict the function reads: its symbol is one string.          *)

_SYNTACTIC_GLUE ==
    { <<"+">>, <<"-">>, <<"=">>,
      <<"\\","c","d","o","t">>, <<"\\","t","i","m","e","s">>, <<"\\","d","i","v">>,
      <<"\\","p","m">>, <<"\\","m","p">>,
      <<"\\","l","o","n","g","l","e","f","t","a","r","r","o","w">>,
      <<"\\","l","e","f","t","a","r","r","o","w">>,
      <<"\\","r","i","g","h","t","a","r","r","o","w">>,
      <<"\\","l","o","n","g","r","i","g","h","t","a","r","r","o","w">>,
      <<"\\","L","o","n","g","l","e","f","t","a","r","r","o","w">>,
      <<"\\","R","i","g","h","t","a","r","r","o","w">>,
      <<"\\","L","o","n","g","r","i","g","h","t","a","r","r","o","w">>,
      <<"\\","a","p","p","r","o","x">>, <<"\\","n","e","q">>, <<"\\","l","e","q">>,
      <<"\\","g","e","q">>, <<"\\","e","q","u","i","v">>, <<"\\","s","i","m">>,
      <<"\\","p","r","o","p","t","o">> }

Digits == {"0","1","2","3","4","5","6","7","8","9"}

\* the ASCII characters str.strip() removes
Whitespace == {" ", "\t", "\n", "\r", "\f"}

RECURSIVE LStrip(_)
LStrip(s) == IF s # <<>> /\ Head(s) \in Whitespace THEN LStrip(Tail(s)) ELSE s

RECURSIVE RStrip(_)
RStrip(s) ==
    IF s # <<>> /\ s[Len(s)] \in Whitespace THEN RStrip(SubSeq(s, 1, Len(s) - 1)) ELSE s

\* s.strip()
Strip(s) == RStrip(LStrip(s))

\* _BARE_MODIFIER_RE.match(s):  ^[\^_]\{[^{}]*\}$  |  ^[\^_][a-zA-Z0-9]$
BareModifier(s) ==
    \/ /\ Len(s) >= 3
       /\ s[1] \in {"^", "_"}
       /\ s[2] = "{"
       /\ s[Len(s)] = "}"
       /\ \A k \in 3..(Len(s) - 1) : s[k] \notin {"{", "}"}
    \/ /\ Len(s) = 2
       /\ s[1] \in {"^", "_"}
       /\ s[2] \in AsciiLetters \cup Digits

_is_syntactic_glue(sym) == Strip(sym) \in _SYNTACTIC_GLUE \/ BareModifier(Strip(sym))

\* the test of lines 70-81 for index i: glue that some other symbol contains
GlueWithParent(cs, i) ==
    /\ _is_syntactic_glue(cs[i + 1].symbol)
    /\ \E j \in (0..(Len(cs) - 1)) \ {i} : IsSubstring(Strip(cs[i + 1].symbol), cs[j + 1].symbol)

glue_indices_first_only(cs) ==
    LET all == {i \in 0..(Len(cs) - 1) : GlueWithParent(cs, i)}
    IN IF all = {} THEN {} ELSE {SetMin(all)}

\* glue_indices of lines 69-81
GlueIndices(cs) == {i \in 0..(Len(cs) - 1) : GlueWithParent(cs, i)}

\* [c for i, c in enumerate(cs) if i not in dropped], from index i on
RECURSIVE Without(_, _, _)
Without(cs, dropped, i) ==
    IF i >= Len(cs) THEN <<>>
    ELSE (IF i \in dropped THEN <<>> ELSE <<cs[i + 1]>>) \o Without(cs, dropped, i + 1)

merge_fragmented_components(cs) ==
    IF Len(cs) < 2 THEN cs ELSE Without(cs, GlueIndices(cs), 0)

-----------------------------------------------------------------------------
(* Specification of merge_fragmented_components, called on a draft and then on  *)
(* its own result                                                               *)

MaxDraftLen == 3

DraftSymbolInputs ==
    { <<"-">>, <<" ","-">>, <<"x","-">>, <<"^","2">>, <<"x","^","2">>, <<"+">> }

DraftCounterpartInputs == { <<"a">>, <<"a"," ">>, <<"b">> }

DraftComponentInputs ==
    {[symbol |-> sym, counterpart |-> c] : sym \in DraftSymbolInputs,
                                           c \in DraftCounterpartInputs}

InitNorm ==
    /\ pc = "norm_start"
    /\ draft \in UNION {[1..n -> DraftComponentInputs] : n \in 0..MaxDraftLen}
    /\ glue_indices = {}
    /\ normalized = None
    /\ renormalized = None
    /\ NestedIdle
    /\ latex = <<>>
    /\ explanation = <<>>
    /\ components = <<>>
    /\ command_mask = None
    /\ groups = <<>>
    /\ origin = <<>>
    /\ idx = 0
    /\ result = None
    /\ symbol = <<>>
    /\ pos = None

Normalize ==
    /\ pc = "norm_start"
    /\ glue_indices' = IF Len(draft) < 2 THEN {} ELSE GlueIndices(draft)
    /\ normalized' = merge_fragmented_components(draft)
    /\ pc' = "norm_once"
    /\ UNCHANGED <<nested_vars, latex, explanation, components, command_mask, groups, origin, idx,
                   result, symbol, pos, draft, renormalized>>

NormalizeAgain ==
    /\ pc = "norm_once"
    /\ renormalized' = merge_fragmented_components(normalized)
    /\ pc' = "norm_twice"
    /\ UNCHANGED <<nested_vars, latex, explanation, components, command_mask, groups, origin, idx,
                   result, symbol, pos, draft, glue_indices, normalized>>

NextNorm == Normalize \/ NormalizeAgain

SpecNorm == InitNorm /\ [][NextNorm]_vars

-----------------------------------------------------------------------------
(* Properties of merge_fragmented_components *)

DraftIds == 0..(Len(draft) - 1)

\* the order-preserving, deduplicated union of the symbols of the components in ks
RECURSIVE DedupUnion(_, _)
DedupUnion(ks, seen) ==
    IF ks = {} THEN <<>>
    ELSE LET k == SetMin(ks)
             sym == draft[k + 1].symbol
         IN IF sym \in seen THEN DedupUnion(ks \ {k}, seen)
            ELSE <<sym>> \o DedupUnion(ks \ {k}, seen \cup {sym})

SameCounterpart(i) == {k \in DraftIds : Strip(draft[k + 1].counterpart) = Strip(draft[i + 1].counterpart)}

\* C7: for every set of draft components that share an identical trimmed counterpart,
\* the normalized output contains exactly one component for that counterpart, whose
\* symbol list is the order-preserving, deduplicated union of the members' symbols;
\* a component with a unique counterpart passes through unchanged.  Stated for the
\* sets that hold no syntactic glue, which the glue pass leaves alone.
C7_DedupCorrectness ==
    pc = "norm_once" =>
        \A i \in DraftIds :
            (\A k \in SameCounterpart(i) : ~_is_syntactic_glue(draft[k + 1].symbol)) =>
                LET outs == {n \in 1..Len(normalized) :
                                Strip(normalized[n].counterpart) = Strip(draft[i + 1].counterpart)}
                IN /\ Cardinality(outs) = 1
                   /\ \A n \in outs :
                        /\ <<normalized[n].symbol>> = DedupUnion(SameCounterpart(i), {})
                        /\ Cardinality(SameCounterpart(i)) = 1 => normalized[n] = draft[i + 1]

\* C8: in the glue pass over at least two components, a component all of whose
\* symbols are glue is removed if and only if every one of its symbols is a literal
\* substring of the symbol text of some other component that itself survives the
\* pass; a non-glue component is never removed.
C8_GlueSuppression ==
    (pc = "norm_once" /\ Len(draft) >= 2) =>
        /\ normalized = Without(draft, glue_indices, 0)
        /\ \A i \in DraftIds :
            IF _is_syntactic_glue(draft[i + 1].symbol)
            THEN i \in glue_indices <=>
                    \E j \in DraftIds \ {i} :
                        /\ j \notin glue_indices
                        /\ IsSubstring(Strip(draft[i + 1].symbol), draft[j + 1].symbol)
            ELSE i \notin glue_indices

\* C9: applying merge_fragmented_components to its own output returns that output
\* unchanged, N(N(L)) = N(L).
C9_Idempotent ==
    pc = "norm_twice" => renormalized = normalized

C9_Witness ==
    /\ pc = "norm_twice"
    /\ glue_indices # {}
    /\ Len(normalized) >= 2
    /\ \E n \in 1..Len(normalized) : _is_syntactic_glue(normalized[n].symbol)

-----------------------------------------------------------------------------
(* Ingress of a draft in parse_formula_test: the decoded model output becomes a  *)
(* TestParseResponse.  A JSON value keeps its type: a symbol is drawn as a bare  *)
(* string (the shape PARSE_SCHEMA asks for) or as a list of strings.             *)

JsonStr(v) == [type |-> "str", value |-> v]

JsonList(v) == [type |-> "list", value |-> v]

RawSymbolInputs ==
    { JsonStr(<<"m">>), JsonStr(<<>>), JsonList(<<>>), JsonList(<<<<"m">>>>),
      JsonList(<<<<"m">>, <<"+","m">>>>) }

RawComponentInputs ==
    {[symbol |-> sym, counterpart |-> c] : sym \in RawSymbolInputs,
                                           c \in CounterpartInputs}

\* validation of the field symbol: List[str], which takes a list of strings as it
\* is and rejects a bare string
SymbolFieldValid(v) == v.type = "list"

\* ComponentBreakdown built from the dict of line 149
ComponentBreakdown(c) ==
    IF SymbolFieldValid(c.symbol)
    THEN [kind |-> "ComponentBreakdown", symbol |-> c.symbol.value,
          counterpart |-> c.counterpart]
    ELSE [kind |-> "ValidationError"]

\* TestParseResponse(latex=..., explanation=..., components=[...]) of lines 145-153
TestParseResponse(s, expl, raw) ==
    IF \E k \in 1..Len(raw) : ComponentBreakdown(raw[k]).kind = "ValidationError"
    THEN [kind |-> "ValidationError"]
    ELSE [kind |-> "TestParseResponse", latex |-> s, explanation |-> expl,
          components |-> [k \in 1..Len(raw) |->
                             [symbol |-> ComponentBreakdown(raw[k]).symbol,
                              counterpart |-> ComponentBreakdown(raw[k]).counterpart]]]

InitIngress ==
    /\ pc = "ingress_start"
    /\ latex \in LatexInputs
    /\ explanation \in ExplanationInputs
    /\ draft \in UNION {[1..n -> RawComponentInputs] : n \in 0..MaxDraftLen}
    /\ components = <<>>
    /\ command_mask = None
    /\ groups = <<>>
    /\ origin = <<>>
    /\ idx = 0
    /\ result = None
    /\ symbol = <<>>
    /\ pos = None
    /\ glue_indices = {}
    /\ normalized = None
    /\ renormalized = None
    /\ NestedIdle

\* parse_formula_test from line 117 on, draft being result["components"]
ParseFormulaTest ==
    /\ pc = "ingress_start"
    /\ result' = IF draft = <<>> THEN [kind |-> "HTTPException", status_code |-> 422]
                 ELSE TestParseResponse(latex, explanation, draft)
    /\ components' = IF result'.kind = "TestParseResponse" THEN result'.components
                     ELSE components
    /\ pc' = "ingress_done"
    /\ UNCHANGED <<nested_vars, latex, explanation, command_mask, groups, origin, idx, symbol, pos,
                   draft, glue_indices, normalized, renormalized>>

NextIngress == ParseFormulaTest

SpecIngress == InitIngress /\ [][NextIngress]_vars

\* C14: when a component of the draft carries its symbol as a bare string instead of
\* a list of strings, ingress turns it into a single-element list and the component
\* is processed like any other, with no validation error or exception ending the run.
C14_LegacySymbolTolerated ==
    (pc = "ingress_done" /\ \E k \in 1..Len(draft) : draft[k].symbol.type = "str") =>
        /\ result.kind = "TestParseResponse"
        /\ Len(components) = Len(draft)
        /\ \A k \in 1..Len(draft) :
               draft[k].symbol.type = "str" =>
                   components[k].symbol = <<draft[k].symbol.value>>

-----------------------------------------------------------------------------
(* resolve_nested_symbols.  A token is a string; component k of the Python list  *)
(* is components[k + 1], and the locals keep the same numbering.                *)

\* _TOKEN_RE.findall(s), scanning from position i: a command name is one token,
\* whitespace is skipped, every other character is a token of its own
RECURSIVE TokensFrom(_, _)
TokensFrom(s, i) ==
    IF i >= Len(s) THEN <<>>
    ELSE IF s[i + 1] = "\\" /\ CommandRunEnd(s, i + 1) > i + 1
         THEN <<Slice(s, i, CommandRunEnd(s, i + 1))>>
                  \o TokensFrom(s, CommandRunEnd(s, i + 1))
    ELSE IF s[i + 1] \in Whitespace THEN TokensFrom(s, i + 1)
    ELSE <<<<s[i + 1]>>>> \o TokensFrom(s, i + 1)

_tokenize(s) == TokensFrom(s, 0)

FoundAt(i) == [kind |-> "pos", value |-> i]

_find_sublist_pos(needle, haystack) ==
    LET hits == {i \in 0..(Len(haystack) - Len(needle)) : StartsAt(needle, haystack, i)}
    IN IF Len(needle) = 0 \/ Len(needle) >= Len(haystack) THEN None
       ELSE IF hits = {} THEN None
       ELSE FoundAt(SetMin(hits))

\* the loop of lines 42-47, from token k on
RECURSIVE JoinFrom(_, _)
JoinFrom(tokens, k) ==
    IF k > Len(tokens) THEN <<>>
    ELSE tokens[k]
         \o (IF /\ tokens[k][1] = "\\"
                /\ k < Len(tokens)
                /\ tokens[k + 1][1] \in AsciiLetters
             THEN <<" ">> ELSE <<>>)
         \o JoinFrom(tokens, k + 1)

_tokens_to_latex(tokens) == JoinFrom(tokens, 1)

\* the token r"\cdot"
Placeholder == <<"\\", "c", "d", "o", "t">>

\* the 0-based indices of a list in the order a stable sort by the keys puts them,
\* keys[i + 1] being the key of index i, as list.sort and sorted do
SortedIndices(keys, reverse) ==
    LET n == Len(keys)
        before(j, i) == IF reverse THEN keys[j + 1] > keys[i + 1]
                        ELSE keys[j + 1] < keys[i + 1]
        rank(i) == 1 + Cardinality({j \in 0..(n - 1) :
                           before(j, i) \/ (keys[j + 1] = keys[i + 1] /\ j < i)})
    IN [r \in 1..n |-> CHOOSE i \in 0..(n - 1) : rank(i) = r]

\* the order of the for loop of line 114: largest token list first
ParentOrder(orig) == SortedIndices([k \in 1..Len(orig) |-> Len(orig[k])], TRUE)

\* potential of lines 116-122: <<pos, length, child_j>> for every other component
\* whose original tokens occur in the parent's tokens
Potential(parent_i, orig, res) ==
    LET at(j) == _find_sublist_pos(orig[j + 1], res[parent_i + 1])
        found(j) == j # parent_i /\ at(j).kind = "pos"
        js == SelectSeq([k \in 1..Len(orig) |-> k - 1], found)
    IN [k \in 1..Len(js) |-> <<at(js[k]).value, Len(orig[js[k] + 1]), js[k]>>]

\* direct of lines 129-136: the matches that lie in no other match's range
DirectMatches(potential) ==
    LET is_grandchild(i) ==
            \E j \in (1..Len(potential)) \ {i} :
                /\ potential[j][1] <= potential[i][1]
                /\ potential[i][1] + potential[i][2] <= potential[j][1] + potential[j][2]
        keep(i) == ~is_grandchild(i)
        is == SelectSeq([k \in 1..Len(potential) |-> k], keep)
    IN [k \in 1..Len(is) |-> potential[is[k]]]

\* direct.sort(key=lambda x: x[0]) of line 139
SortByPos(direct) ==
    LET order == SortedIndices([k \in 1..Len(direct) |-> direct[k][1]], FALSE)
    IN [k \in 1..Len(direct) |-> direct[order[k] + 1]]

\* tokens[a:] for a >= 0
SliceFrom(tokens, a) == IF a >= Len(tokens) THEN <<>> ELSE SubSeq(tokens, a + 1, Len(tokens))

\* the loop of lines 140-145 over direct[k], direct[k - 1], ..., direct[1]
RECURSIVE ReplaceFrom(_, _, _)
ReplaceFrom(tokens, direct, k) ==
    IF k = 0 THEN tokens
    ELSE ReplaceFrom(Slice(tokens, 0, direct[k][1])
                         \o <<Placeholder>>
                         \o SliceFrom(tokens, direct[k][1] + direct[k][2]),
                     direct, k - 1)

\* the component dicts of lines 151-160, in input order
BuiltComponents(comps, res, children) ==
    [k \in 1..Len(comps) |->
        [symbol |-> IF _tokens_to_latex(res[k]) # comps[k].symbol
                    THEN _tokens_to_latex(res[k]) ELSE comps[k].symbol,
         original_symbol |-> comps[k].symbol,
         children |-> [c \in 1..Len(children[k]) |->
                          _tokens_to_latex(res[children[k][c] + 1])]]]

\* result.sort(key=lambda c: len(c["children"]), reverse=True) of line 163
SortByChildren(built) ==
    LET order == SortedIndices([k \in 1..Len(built) |-> Len(built[k].children)], TRUE)
    IN [k \in 1..Len(built) |-> built[order[k] + 1]]

-----------------------------------------------------------------------------
(* Specification of resolve_nested_symbols *)

MaxNested == 3

MaxNestedLen == 3

\* symbols of letters, and two whose tokens differ from their characters
NestedSymbolInputs ==
    NonEmptyStr({"a", "b"}, MaxNestedLen) \cup {<<"\\","p","i","a">>, <<"a"," ","b">>}

InitNested ==
    /\ pc = "nested_start"
    /\ \E n \in 0..MaxNested : \E ss \in [1..n -> NestedSymbolInputs] :
           components = [k \in 1..n |-> [symbol |-> ss[k]]]
    /\ NestedIdle
    /\ latex = <<>>
    /\ explanation = <<>>
    /\ command_mask = None
    /\ groups = <<>>
    /\ origin = <<>>
    /\ idx = 0
    /\ result = None
    /\ symbol = <<>>
    /\ pos = None
    /\ draft = <<>>
    /\ glue_indices = {}
    /\ normalized = None
    /\ renormalized = None

\* lines 105-111: the early return, or the set-up of the locals
NestedStart ==
    /\ pc = "nested_start"
    /\ IF Len(components) < 2
       THEN /\ result' = [k \in 1..Len(components) |->
                             [symbol |-> components[k].symbol, children |-> <<>>]]
            /\ pc' = "nested_done"
            /\ UNCHANGED nested_vars
       ELSE /\ orig_tokens' = [k \in 1..Len(components) |-> _tokenize(components[k].symbol)]
            /\ result_tokens' = orig_tokens'
            /\ children_indices' = [k \in 1..Len(components) |-> <<>>]
            /\ pc' = "nested_loop"
            /\ UNCHANGED result
    /\ UNCHANGED <<latex, explanation, components, command_mask, groups, origin, idx,
                   symbol, pos, draft, glue_indices, normalized, renormalized>>

\* one turn of the for loop of lines 114-148
ProcessParent ==
    /\ pc = "nested_loop"
    /\ idx < Len(components)
    /\ LET parent_i == ParentOrder(orig_tokens)[idx + 1]
           potential == Potential(parent_i, orig_tokens, result_tokens)
           direct == SortByPos(DirectMatches(potential))
       IN IF potential = <<>>
          THEN UNCHANGED <<result_tokens, children_indices>>
          ELSE /\ result_tokens' =
                      [result_tokens EXCEPT ![parent_i + 1] =
                          ReplaceFrom(result_tokens[parent_i + 1], direct, Len(direct))]
               /\ children_indices' =
                      [children_indices EXCEPT ![parent_i + 1] =
                          [k \in 1..Len(direct) |-> direct[k][3]]]
    /\ idx' = idx + 1
    /\ UNCHANGED <<pc, orig_tokens, latex, explanation, components, command_mask, groups,
                   origin, result, symbol, pos, draft, glue_indices, normalized,
                   renormalized>>

\* lines 150-165
BuildResult ==
    /\ pc = "nested_loop"
    /\ idx = Len(components)
    /\ result' = SortByChildren(BuiltComponents(components, result_tokens, children_indices))
    /\ pc' = "nested_done"
    /\ UNCHANGED <<nested_vars, latex, explanation, components, command_mask, groups,
                   origin, idx, symbol, pos, draft, glue_indices, normalized,
                   renormalized>>

NextNested == NestedStart \/ ProcessParent \/ BuildResult

SpecNested == InitNested /\ [][NextNested]_vars

-----------------------------------------------------------------------------
(* Properties of resolve_nested_symbols *)

NestedIds == 0..(Len(components) - 1)

NestedResolved == pc = "nested_done" /\ Len(components) >= 2

CountPlaceholders(tokens) == Cardinality({k \in 1..Len(tokens) : tokens[k] = Placeholder})

\* the tokens with the placeholders replaced, from the left, by the original tokens
\* of the components listed in kids
RECURSIVE Expand(_, _)
Expand(tokens, kids) ==
    IF tokens = <<>> THEN <<>>
    ELSE IF Head(tokens) = Placeholder /\ kids # <<>>
         THEN orig_tokens[Head(kids) + 1] \o Expand(Tail(tokens), Tail(kids))
         ELSE <<Head(tokens)>> \o Expand(Tail(tokens), kids)

\* C22: for every component of the result of resolve_nested_symbols, the number of
\* entries of its children list equals the number of \cdot placeholders substituted
\* into its token sequence, and the k-th child is the component whose tokens the
\* k-th placeholder from the left replaced (putting the children's tokens back gives
\* the original tokens), also when two direct children match overlapping token
\* ranges of the parent.
C22_PlaceholdersMatchChildren ==
    /\ pc = "nested_done" =>
           \A r \in 1..Len(result) :
               Len(result[r].children) = CountPlaceholders(_tokenize(result[r].symbol))
    /\ NestedResolved =>
           \A i \in NestedIds :
               /\ Len(children_indices[i + 1]) = CountPlaceholders(result_tokens[i + 1])
               /\ Expand(result_tokens[i + 1], children_indices[i + 1]) = orig_tokens[i + 1]

\* the tokens of component A occur as a strict contiguous sub-sequence of B's
OccursIn(A, B) ==
    /\ A # B
    /\ orig_tokens[A + 1] # <<>>
    /\ Len(orig_tokens[A + 1]) < Len(orig_tokens[B + 1])
    /\ \E p \in 0..Len(orig_tokens[B + 1]) : StartsAt(orig_tokens[A + 1], orig_tokens[B + 1], p)

\* where A's tokens are matched in B: the leftmost occurrence
MatchedAt(A, B) ==
    SetMin({p \in 0..Len(orig_tokens[B + 1]) :
               StartsAt(orig_tokens[A + 1], orig_tokens[B + 1], p)})

\* A's matched range in B lies inside the matched range of a strictly longer
\* component that also occurs in B
InsideLonger(A, B) ==
    \E C \in NestedIds \ {A, B} :
        /\ OccursIn(C, B)
        /\ Len(orig_tokens[C + 1]) > Len(orig_tokens[A + 1])
        /\ MatchedAt(C, B) <= MatchedAt(A, B)
        /\ MatchedAt(A, B) + Len(orig_tokens[A + 1])
               <= MatchedAt(C, B) + Len(orig_tokens[C + 1])

IsNestedChild(B, A) ==
    \E k \in 1..Len(children_indices[B + 1]) : children_indices[B + 1][k] = A

\* C23: if the token sequence of component A occurs as a strict contiguous
\* sub-sequence of the tokens of component B, and A's matched range does not lie
\* inside the matched range of a strictly longer component that also occurs in B,
\* then A is recorded as a direct child of B and its tokens in B are replaced by a
\* \cdot placeholder, also when another component has the same token sequence as A.
C23_DirectChildRecorded ==
    NestedResolved =>
        \A A \in NestedIds : \A B \in NestedIds :
            (OccursIn(A, B) /\ ~InsideLonger(A, B)) =>
                /\ IsNestedChild(B, A)
                /\ CountPlaceholders(result_tokens[B + 1]) >= 1

====
